---- MODULE Spec2Model ----
(***************************************************************************)
(* UCVE (Upper Confidence Variable Elimination) of AI-Toolbox,             *)
(* src/Factored/Bandit/Algorithms/Utils/UCVE.cpp.                          *)
(*                                                                         *)
(* Data.  A PartialAction is [first |-> agents, second |-> actions], two   *)
(* sequences (std::pair of vectors).  An Entry is [tag |-> PartialAction,  *)
(* v |-> <<mean, bonus>>] (std::tuple<PartialAction, Vector2>), Entries a  *)
(* sequence of Entry.  A Rule is [tag |-> PartialAction, entries |->       *)
(* Entries], Rules a sequence of Rule.  A factor node of the graph is      *)
(* [scope |-> agents, rules |-> Rules].                                    *)
(*                                                                         *)
(* Numbers.  Means and bonuses are integers.  logtA is kept in HALVES: the *)
(* number L stands for the double L/2, so the member logtA_ (the           *)
(* constructor's logtA * 0.5) is the constructor's integer argument.       *)
(* computeValue's double  mean + sqrt((bonus + x) * logtA)  is the pair    *)
(* [mean, rad] with rad = (bonus + x) * L, standing for                    *)
(* mean + sqrt(rad / 2); pairs are compared exactly (ValueGT).             *)
(***************************************************************************)
EXTENDS Integers, Sequences, FiniteSets, TLC

VARIABLES
    A,              \* UCVE::A, the action count of every agent
    logtA_,         \* UCVE::logtA_, in halves
    graph_,         \* UCVE::graph_: [variables |-> count, factors |-> Seq(factor)]
    finalFactors_,  \* UCVE::finalFactors_, a sequence of Entries
    results,        \* start()'s local results
    fValue,         \* start()'s range-for over finalFactors_: the next position
    retval,         \* what start() returned: <<>> or <<entry>>
    pc,             \* "start" while start() runs, "done" once it returned
    input,          \* history: the graph start() was called on
    trace,          \* history: what the last step did (see each action)
    call,           \* a call of one of the file's free functions
    ret             \* what that call returned: <<>> before it ran, <<value>> after

vars == <<A, logtA_, graph_, finalFactors_, results, fValue, retval, pc, input, trace, call, ret>>

driverVars == <<A, logtA_, graph_, finalFactors_, results, fValue, retval, pc, input, trace>>

----------------------------------------------------------------------------
(* Sequence helpers                                                        *)

RECURSIVE Flatten(_)
Flatten(ss) == IF Len(ss) = 0 THEN <<>> ELSE Head(ss) \o Flatten(Tail(ss))

Range(s) == {s[i] : i \in 1..Len(s)}

\* The sequence f as an explicit tuple, each element evaluated once.
Tuple(f) == f \o <<>>

\* F(v), with v evaluated once.
Let(v, F(_)) == CHOOSE y \in {F(b) : b \in {v}} : TRUE

InsertAt(s, i, x) ==
    Tuple([k \in 1..(Len(s) + 1) |-> IF k < i THEN s[k] ELSE IF k = i THEN x ELSE s[k - 1]])

EmptyTag == [first |-> <<>>, second |-> <<>>]

----------------------------------------------------------------------------
(* Tag utilities (AIToolbox/Factored/Utils/Core.hpp)                       *)

\* merge(lhs, rhs): the two sorted tags merged by agent index.
RECURSIVE merge(_, _)
merge(lhs, rhs) ==
    IF Len(lhs.first) = 0 THEN rhs
    ELSE IF Len(rhs.first) = 0 THEN lhs
    ELSE IF lhs.first[1] < rhs.first[1]
         THEN Let(merge([first |-> Tail(lhs.first), second |-> Tail(lhs.second)], rhs),
                  LAMBDA rest : [first  |-> <<lhs.first[1]>> \o rest.first,
                                 second |-> <<lhs.second[1]>> \o rest.second])
         ELSE Let(merge(lhs, [first |-> Tail(rhs.first), second |-> Tail(rhs.second)]),
                  LAMBDA rest : [first  |-> <<rhs.first[1]>> \o rest.first,
                                 second |-> <<rhs.second[1]>> \o rest.second])

\* match(lhs, rhs): every agent the two tags share does the same action.
match(lhs, rhs) ==
    \A i \in 1..Len(lhs.first) : \A j \in 1..Len(rhs.first) :
        lhs.first[i] = rhs.first[j] => lhs.second[i] = rhs.second[j]

\* veccmp(lhs, rhs): lexicographic comparison, -1, 0 or 1.
RECURSIVE veccmp(_, _)
veccmp(lhs, rhs) ==
    IF Len(lhs) = 0 /\ Len(rhs) = 0 THEN 0
    ELSE IF Len(lhs) = 0 THEN -1
    ELSE IF Len(rhs) = 0 THEN 1
    ELSE IF lhs[1] < rhs[1] THEN -1
    ELSE IF lhs[1] > rhs[1] THEN 1
    ELSE veccmp(Tail(lhs), Tail(rhs))

\* removeFactor(pa, agent): the tag without the agent's slot.
removeFactor(pa, agent) ==
    Let(SelectSeq(Tuple([i \in 1..Len(pa.first) |-> i]), LAMBDA i : pa.first[i] # agent),
        LAMBDA idx : [first  |-> Tuple([k \in 1..Len(idx) |-> pa.first[idx[k]]]),
                      second |-> Tuple([k \in 1..Len(idx) |-> pa.second[idx[k]]])])

TagsDisjoint(t1, t2) == Range(t1.first) \cap Range(t2.first) = {}

----------------------------------------------------------------------------
(* computeValue and the comparison of its results                          *)

computeValue(e, x, logtA) == [mean |-> e.v[1], rad |-> (e.v[2] + x) * logtA]

\* a.mean + sqrt(a.rad / 2) > b.mean + sqrt(b.rad / 2), decided exactly on
\* 2 * mean + sqrt(2 * rad) by squaring (rad >= 0).
ValueGT(a, b) ==
    LET X == 2 * a.rad
        Y == 2 * b.rad
        D == 2 * b.mean - 2 * a.mean
    IN  IF D < 0
        THEN \/ Y <= X
             \/ LET F == Y - X - D * D IN F < 0 \/ F * F < 4 * D * D * X
        ELSE LET G == X - Y - D * D IN G > 0 /\ G * G > 4 * D * D * Y

ValueLE(a, b) == ~ValueGT(a, b)

----------------------------------------------------------------------------
(* crossSum, both overloads                                                *)

\* The entry crossSum makes of one pair: merged tags, summed values.
\* A sum that adds the means and keeps the left bonus.
sumOfMeansOnly(lhsVal, rhsVal) ==
    [tag |-> merge(lhsVal.tag, rhsVal.tag),
     v   |-> <<lhsVal.v[1] + rhsVal.v[1], lhsVal.v[2]>>]

sumOf(lhsVal, rhsVal) ==
    [tag |-> merge(lhsVal.tag, rhsVal.tag),
     v   |-> <<lhsVal.v[1] + rhsVal.v[1], lhsVal.v[2] + rhsVal.v[2]>>]

\* A cross-sum without the early returns of lines 297-298.
crossSumNoEarlyReturn(lhs, rhs) ==
    Tuple([k \in 1..(Len(lhs) * Len(rhs)) |->
               sumOf(lhs[((k - 1) \div Len(rhs)) + 1], rhs[((k - 1) % Len(rhs)) + 1])])

\* crossSum(const Entries &, const Entries &)
crossSum(lhs, rhs) ==
    IF Len(lhs) = 0 THEN rhs
    ELSE IF Len(rhs) = 0 THEN lhs
    ELSE Tuple([k \in 1..(Len(lhs) * Len(rhs)) |->
                    sumOf(lhs[((k - 1) \div Len(rhs)) + 1], rhs[((k - 1) % Len(rhs)) + 1])])

\* crossSum(const Entries &, std::vector<const Entries*>): rhs is a sequence of Entries
crossSumList(lhs, rhs) ==
    IF Len(rhs) = 0 THEN lhs
    ELSE Flatten(Tuple([p \in 1..Len(rhs) |-> crossSum(lhs, rhs[p])]))

\* The pairs crossSum(lhs, rhs) merges all have tags with no agent in common.
CrossSumDisjoint(lhs, rhs) ==
    \A i \in 1..Len(lhs) : \A j \in 1..Len(rhs) : TagsDisjoint(lhs[i].tag, rhs[j].tag)

CrossSumListDisjoint(lhs, rhs) ==
    \A p \in 1..Len(rhs) : CrossSumDisjoint(lhs, rhs[p])

----------------------------------------------------------------------------
(* boundPrune                                                              *)

\* std::sort leaves the order of elements that compare equivalent
\* unspecified.  The model sorts by the comparator and orders equivalent
\* elements by their position, ascending ("fwd") or descending ("rev"); which
\* of the two is chosen nondeterministically by whoever calls the sort.
TieBreaks == {"fwd", "rev"}

\* std::sort(begin, end, before): before(a, b) is the strict comparator.
SortBy(s, before(_, _), tb) ==
    LET n == Len(s)
        First(j, i) ==
            \/ before(s[j], s[i])
            \/ /\ ~before(s[i], s[j])
               /\ IF tb = "fwd" THEN j < i ELSE j > i
    IN  Tuple([k \in 1..n |->
            s[CHOOSE i \in 1..n : Cardinality({j \in 1..n : j # i /\ First(j, i)}) = k - 1]])

\* The elements of s at the positions keep holds, in order.
Keep(s, keep(_)) ==
    Let(SelectSeq(Tuple([i \in 1..Len(s) |-> i]), keep),
        LAMBDA idx : Tuple([k \in 1..Len(idx) |-> s[idx[k]]]))

\* std::unique(begin, end, same): of every run of consecutive elements the
\* predicate calls equal, the first is kept.  (same is an equivalence here, so
\* comparing with the previous element is comparing with the last one kept.)
Unique(s, same(_, _)) == Keep(s, LAMBDA i : i = 1 \/ ~same(s[i - 1], s[i]))

\* A removal that tests the candidates at x_l instead of x_u.
removeBoundedAtLower(uniq, x_l, x_u, logtA) ==
    Keep(uniq, LAMBDA i : i = 1 \/ ~ValueLE(computeValue(uniq[i], x_l, logtA),
                                            computeValue(uniq[1], x_l, logtA)))

\* Lines 268-269: the first element, and of the others those whose value at
\* x_u exceeds the first one's at x_l.
removeBounded(uniq, x_l, x_u, logtA) ==
    Keep(uniq, LAMBDA i : i = 1 \/ ~ValueLE(computeValue(uniq[i], x_u, logtA),
                                            computeValue(uniq[1], x_l, logtA)))

\* Lines 260-262: the descending sort by the value at x_l.
sortByLower(entries, x_l, logtA, tb) ==
    SortBy(entries,
           LAMBDA lhs, rhs : ValueGT(computeValue(lhs, x_l, logtA), computeValue(rhs, x_l, logtA)),
           tb)

\* boundPrune(begin, end, x_l, x_u, logtA): the range [begin, returned iterator),
\* which is what every caller keeps (it erases the rest).
boundPrune(entries, x_l, x_u, logtA, tb) ==
    IF Len(entries) < 2 THEN entries
    ELSE removeBounded(Unique(sortByLower(entries, x_l, logtA, tb), LAMBDA lhs, rhs : lhs.v = rhs.v),
                       x_l, x_u, logtA)

----------------------------------------------------------------------------
(* getPayoffs, ruleComp, mergePayoffs                                      *)

\* getPayoffs(rules, jointAction): the Entries of the matching rules, in order.
getPayoffs(rules, jointAction) ==
    Let(SelectSeq(rules, LAMBDA rule : match(jointAction, rule.tag)),
        LAMBDA matching : Tuple([k \in 1..Len(matching) |-> matching[k].entries]))

ruleComp(lhs, rhs) == veccmp(lhs.tag.second, rhs.tag.second) < 0

\* The while loop and the two copy loops of mergePayoffs, on the sorted tables.
RECURSIVE MergeJoin(_, _, _, _)
MergeJoin(lhs, rhs, i, j) ==
    IF i <= Len(lhs) /\ j <= Len(rhs)
    THEN Let(veccmp(lhs[i].tag.second, rhs[j].tag.second),
             LAMBDA first :
                <<IF first < 0 THEN lhs[i]
                  ELSE IF first > 0 THEN rhs[j]
                  ELSE [tag |-> lhs[i].tag, entries |-> crossSum(lhs[i].entries, rhs[j].entries)]>>
                \o MergeJoin(lhs, rhs, IF first <= 0 THEN i + 1 ELSE i, IF first >= 0 THEN j + 1 ELSE j))
    ELSE SubSeq(lhs, i, Len(lhs)) \o SubSeq(rhs, j, Len(rhs))

\* A merge that appends the two tables.
mergePayoffsAppend(lhs, rhs) == lhs \o rhs

\* mergePayoffs(Rules && lhs, Rules && rhs).  Both sorts are by ruleComp; the
\* tables the model passes hold no two rules with the same action sequence,
\* so each sort has one possible result.
mergePayoffs(lhs, rhs) ==
    MergeJoin(SortBy(lhs, ruleComp, "fwd"), SortBy(rhs, ruleComp, "fwd"), 1, 1)

\* The pairs of Entries mergePayoffs cross-sums all have disjoint tags.
MergePayoffsDisjoint(lhs, rhs) ==
    \A i \in 1..Len(lhs) : \A j \in 1..Len(rhs) :
        veccmp(lhs[i].tag.second, rhs[j].tag.second) = 0
            => CrossSumDisjoint(lhs[i].entries, rhs[j].entries)

----------------------------------------------------------------------------
(* The factor graph (AIToolbox/Factored/Utils/FactorGraph.hpp) as UCVE     *)
(* uses it.  graph.factors is the list of factor nodes in the graph's      *)
(* order, graph.variables the number of agent nodes left; the agents left  *)
(* are 0 .. variables - 1, since start() always erases the last one.       *)

\* graph_.getNeighbors(agent): the positions of the adjacent factors, in order.
getNeighborsOfAgent(graph, agent) ==
    SelectSeq(Tuple([i \in 1..Len(graph.factors) |-> i]),
              LAMBDA i : agent \in Range(graph.factors[i].scope))

SortedSeq(S) ==
    Tuple([k \in 1..Cardinality(S) |-> CHOOSE x \in S : Cardinality({y \in S : y < x}) = k - 1])

\* graph_.getNeighbors(factors): the agents of these factors, ascending, each once.
getNeighborsOfFactors(graph, factors) ==
    SortedSeq(UNION {Range(graph.factors[factors[i]].scope) : i \in 1..Len(factors)})

\* graph_.erase(it) for every it of factors, then graph_.erase(agent).
eraseAll(graph, factors) ==
    [variables |-> graph.variables - 1,
     factors   |-> Keep(graph.factors, LAMBDA i : i \notin Range(factors))]

\* graph_.getFactor(agents): the position of the factor over these agents and
\* the graph holding it; a factor that is not there is added, last, with no rules.
getFactor(graph, agents) ==
    IF \E i \in 1..Len(graph.factors) : graph.factors[i].scope = agents
    THEN [at |-> CHOOSE i \in 1..Len(graph.factors) : graph.factors[i].scope = agents,
          graph |-> graph, created |-> FALSE]
    ELSE [at |-> Len(graph.factors) + 1,
          graph |-> [graph EXCEPT !.factors = Append(@, [scope |-> agents, rules |-> <<>>])],
          created |-> TRUE]

\* PartialFactorsEnumerator(A, agents, agent): the joint actions of agents, the
\* slot of agent (getFactorToSkipId) left at 0 for the caller to write, the
\* first agent's action changing fastest.
RECURSIVE jointActionsOf(_, _, _)
jointActionsOf(actions, agents, agent) ==
    IF Len(agents) = 0 THEN << <<>> >>
    ELSE Let(jointActionsOf(actions, Tail(agents), agent),
             LAMBDA rest :
                Flatten(Tuple([r \in 1..Len(rest) |->
                    Tuple([a \in 1..(IF agents[1] = agent THEN 1 ELSE actions[agents[1] + 1]) |->
                              <<a - 1>> \o rest[r]])])))

\* The joint actions the while loop of removeAgent walks (isValid, operator*,
\* advance).  Every joint action of the enumerator holds the slot of agent;
\* over no agents there is none, and isValid() is false from the start.
enumerate(actions, agents, agent) ==
    IF Len(agents) = 0 THEN <<>> ELSE jointActionsOf(actions, agents, agent)

getFactorToSkipId(agents, agent) == CHOOSE i \in 1..Len(agents) : agents[i] = agent

Max(S) == CHOOSE x \in S : \A y \in S : y <= x
Min(S) == CHOOSE x \in S : \A y \in S : x <= y

----------------------------------------------------------------------------
(* UCVE::removeAgent                                                       *)

\* The bonuses (v[1] of the code) of all entries of a factor's rules.
bonusesOf(rules) ==
    UNION {{rules[r].entries[e].v[2] : e \in 1..Len(rules[r].entries)} : r \in 1..Len(rules)}

\* Lines 132-157: the bounds of this round, summed over the factors of the
\* graph that std::find does not find among factors from skipIt on.  Every
\* factor of the model that is summed here holds an entry, so currMax and
\* currMin are set.
RECURSIVE bounds(_, _, _, _)
bounds(graph, factors, it, skipIt) ==
    IF it > Len(graph.factors) THEN [x_u |-> 0, x_l |-> 0]
    ELSE IF \E k \in skipIt..Len(factors) : factors[k] = it
         THEN bounds(graph, factors, it + 1, Min({k \in skipIt..Len(factors) : factors[k] = it}) + 1)
         ELSE Let(bounds(graph, factors, it + 1, skipIt),
                  LAMBDA rest :
                    Let(bonusesOf(graph.factors[it].rules),
                        LAMBDA bonus : [x_u |-> rest.x_u + Max(bonus), x_l |-> rest.x_l + Min(bonus)]))

\* Lines 174-186: the entries of factors[0] that match, then the cross-sum with
\* every further factor and the pruning when the list grew.  Returns the
\* entries, whether every cross-sum was of disjoint tags (ok) and whether a
\* pruning removed an entry (cut).
RECURSIVE crossSumFactors(_, _, _, _, _, _, _, _, _)
crossSumFactors(graph, factors, i, newEntries, entries, jointAction, x, logtA, tb) ==
    IF i > Len(factors) THEN [e |-> newEntries, ok |-> TRUE, cut |-> FALSE]
    ELSE Let(getPayoffs(graph.factors[factors[i]].rules, jointAction), LAMBDA payoffs :
         Let(crossSumList(newEntries, payoffs), LAMBDA summed :
         Let(IF Len(summed) > entries
             THEN boundPrune(summed, x.x_l, x.x_u, logtA, tb) ELSE summed, LAMBDA pruned :
         Let(crossSumFactors(graph, factors, i + 1, pruned,
                             IF Len(summed) > entries THEN Len(pruned) ELSE entries,
                             jointAction, x, logtA, tb), LAMBDA rest :
            [e   |-> rest.e,
             ok  |-> rest.ok /\ CrossSumListDisjoint(newEntries, payoffs),
             cut |-> rest.cut \/ Len(pruned) < Len(summed)]))))

\* A tagging that appends the agent and its action.
addTagAtEnd(nv, agent, agentAction) ==
    [nv EXCEPT !.tag = [first  |-> Append(nv.tag.first, agent),
                        second |-> Append(nv.tag.second, agentAction)]]

\* Lines 191-200: the agent and its action put into the tag, before the first
\* agent that is not smaller.
addTag(nv, agent, agentAction) ==
    Let(Cardinality({k \in 1..Len(nv.tag.first) : \A j \in 1..k : nv.tag.first[j] < agent}) + 1,
        LAMBDA i : [nv EXCEPT !.tag = [first  |-> InsertAt(nv.tag.first, i, agent),
                                       second |-> InsertAt(nv.tag.second, i, agentAction)]])

\* Lines 171-203, for one action of the agent: newEntries with their tags.
entriesOf(graph, factors, agent, agentAction, jointAction, x, logtA, tb) ==
    Let(Flatten(getPayoffs(graph.factors[factors[1]].rules, jointAction)), LAMBDA first :
    Let(crossSumFactors(graph, factors, 2, first, Len(first), jointAction, x, logtA, tb), LAMBDA all :
        [e   |-> Tuple([k \in 1..Len(all.e) |-> addTag(all.e[k], agent, agentAction)]),
         ok  |-> all.ok,
         cut |-> all.cut]))

\* The values without line 172: the agent's slot of the joint action stays 0.
valuesOfNoWrite(graph, actions, factors, agent, jointAction, id, x, logtA, tb) ==
    Let(Tuple([a \in 1..actions[agent + 1] |->
                entriesOf(graph, factors, agent, a - 1, jointAction, x, logtA, tb)]),
        LAMBDA perAction :
            [e   |-> Flatten(Tuple([a \in 1..Len(perAction) |-> perAction[a].e])),
             ok  |-> \A a \in 1..Len(perAction) : perAction[a].ok,
             cut |-> \E a \in 1..Len(perAction) : perAction[a].cut])

\* Lines 170-204: for one joint action of the neighbours, the values of every
\* action of the agent.
valuesOf(graph, actions, factors, agent, jointAction, id, x, logtA, tb) ==
    Let(Tuple([a \in 1..actions[agent + 1] |->
                entriesOf(graph, factors, agent, a - 1,
                          [jointAction EXCEPT !.second[id] = a - 1], x, logtA, tb)]),
        LAMBDA perAction :
            [e   |-> Flatten(Tuple([a \in 1..Len(perAction) |-> perAction[a].e])),
             ok  |-> \A a \in 1..Len(perAction) : perAction[a].ok,
             cut |-> \E a \in 1..Len(perAction) : perAction[a].cut])

\* Lines 227-243: nothing when no rule was emitted, else the rules merged into
\* the factor over the remaining neighbours.
addRules(erased, agents, newRules) ==
    IF Len(newRules) = 0 THEN [graph |-> erased, created |-> FALSE, merged |-> FALSE, ok |-> TRUE]
    ELSE Let(getFactor(erased, agents), LAMBDA got :
         Let(got.graph.factors[got.at].rules, LAMBDA fRules :
            [graph   |-> [got.graph EXCEPT !.factors[got.at].rules = mergePayoffs(fRules, newRules)],
             created |-> got.created,
             merged  |-> Len(fRules) # 0,
             ok      |-> MergePayoffsDisjoint(fRules, newRules)]))

\* An end of removeAgent without the erasures of lines 221-223.
finishAgentNoErase(graph, ff, factors, agents, agent, seconds, vals) ==
    [graph        |-> graph,
     finalFactors |-> ff \o Tuple([k \in 1..Len(seconds) |-> vals[k].e]),
     factors      |-> factors,
     created      |-> FALSE,
     merged       |-> FALSE,
     ok           |-> \A k \in 1..Len(seconds) : vals[k].ok,
     cut          |-> \E k \in 1..Len(seconds) : vals[k].cut]

\* Lines 205-218 and 221-243, given what the enumeration of the joint actions
\* found (vals[k] for the k-th joint action, seconds[k]).
finishAgent(graph, ff, factors, agents, agent, seconds, vals) ==
    Let(SelectSeq(Tuple([k \in 1..Len(seconds) |-> k]), LAMBDA k : Len(vals[k].e) # 0), LAMBDA some :
    Let(IF Len(agents) = 1 THEN <<>>
        ELSE Tuple([k \in 1..Len(some) |->
                [tag |-> removeFactor([first |-> agents, second |-> seconds[some[k]]], agent),
                 entries |-> vals[some[k]].e]]), LAMBDA newRules :
    Let(addRules(eraseAll(graph, factors), SelectSeq(agents, LAMBDA a : a # agent), newRules),
        LAMBDA added :
            [graph        |-> added.graph,
             finalFactors |-> IF Len(agents) = 1
                              THEN ff \o Tuple([k \in 1..Len(some) |-> vals[some[k]].e])
                              ELSE ff,
             factors      |-> factors,
             created      |-> added.created,
             merged       |-> added.merged,
             ok           |-> added.ok /\ \A k \in 1..Len(seconds) : vals[k].ok,
             cut          |-> \E k \in 1..Len(seconds) : vals[k].cut])))

\* UCVE::removeAgent(agent), on the graph and the final factors it is given.
\* Returns both as it leaves them, and for the history: the adjacent factors,
\* whether a factor was created, whether mergePayoffs met rules already
\* there (merged), ok and cut as above.
removeAgent(graph, ff, actions, logtA, agent, tb) ==
    Let(getNeighborsOfAgent(graph, agent), LAMBDA factors :
    Let(getNeighborsOfFactors(graph, factors), LAMBDA agents :
    Let(bounds(graph, factors, 1, 1), LAMBDA x :
    Let(enumerate(actions, agents, agent), LAMBDA seconds :
        finishAgent(graph, ff, factors, agents, agent, seconds,
                    Tuple([k \in 1..Len(seconds) |->
                        valuesOf(graph, actions, factors, agent,
                                 [first |-> agents, second |-> seconds[k]],
                                 getFactorToSkipId(agents, agent), x, logtA, tb)]))))))

\* A removeAgent that reads factors[0] before the loops, whatever they do.
readsFirstBeforeLoop(graph, actions, agent) == TRUE

\* Lines 167-176: whether removeAgent(agent) reads factors[0], which it does
\* in every turn of the agentAction loop of every joint action.
readsFirst(graph, actions, agent) ==
    Let(getNeighborsOfFactors(graph, getNeighborsOfAgent(graph, agent)), LAMBDA agents :
        Len(enumerate(actions, agents, agent)) > 0 /\ actions[agent + 1] > 0)

----------------------------------------------------------------------------
(* The graphs start() is called on                                         *)

MaxLogtA == 2

\* The <<mean, bonus>> pairs of the initial rules.
Values == {<<0, 0>>, <<1, 0>>, <<0, 4>>}

\* The action counts and the scopes of the initial factors, in the graph's order.
Shapes ==
    { [A |-> <<>>,        scopes |-> <<>>],
      [A |-> <<2>>,       scopes |-> << <<0>> >>],
      [A |-> <<2, 2>>,    scopes |-> << <<0, 1>> >>],
      [A |-> <<2, 2>>,    scopes |-> << <<0>>, <<1>> >>],
      [A |-> <<2, 2>>,    scopes |-> << <<0>>, <<0, 1>> >>],
      [A |-> <<2, 2>>,    scopes |-> << <<0, 1>>, <<1>> >>],
      [A |-> <<1, 2>>,    scopes |-> << <<0>>, <<1>>, <<0, 1>> >>],
      [A |-> <<1, 1, 2>>, scopes |-> << <<0, 1>>, <<1, 2>> >>],
      [A |-> <<1, 1, 2>>, scopes |-> << <<0, 2>>, <<1, 2>>, <<0, 1>> >>],
      [A |-> <<1, 1, 2>>, scopes |-> << <<2>>, <<0, 2>>, <<1, 2>> >>] }

\* A factor over scope with one rule for every assignment of the scope, each
\* of one entry with an empty tag: table[k] is the value of the k-th assignment.
factorOf(actions, scope, table) ==
    Let(jointActionsOf(actions, scope, -1), LAMBDA seconds :
        [scope |-> scope,
         rules |-> Tuple([k \in 1..Len(seconds) |->
                      [tag |-> [first |-> scope, second |-> seconds[k]],
                       entries |-> << [tag |-> EmptyTag, v |-> table[k]] >>]])])

FactorsOver(actions, scope) ==
    {factorOf(actions, scope, table) :
        table \in [1..Len(jointActionsOf(actions, scope, -1)) -> Values]}

RECURSIVE FactorLists(_, _)
FactorLists(actions, scopes) ==
    IF Len(scopes) = 0 THEN {<<>>}
    ELSE {<<f>> \o rest : f \in FactorsOver(actions, Head(scopes)),
                          rest \in FactorLists(actions, Tail(scopes))}

\* The scenario of two agents with the payoffs [[1,3],[5,2]].
Scenario ==
    [A |-> <<2, 2>>,
     factors |-> << factorOf(<<2, 2>>, <<0, 1>>,
                             <<(<<1, 0>>), (<<5, 0>>), (<<3, 0>>), (<<2, 0>>)>>) >>]

\* Graphs with an agent in no factor, and graphs whose factor over both
\* agents has no rule, or a rule for one assignment only.
Sparse ==
    {[A |-> <<2, 2>>, factors |-> <<>>]}
    \cup {[A |-> <<2, 2>>, factors |-> <<f>>] : f \in FactorsOver(<<2, 2>>, <<0>>)}
    \cup {[A |-> <<2, 2>>, factors |-> <<f>>] : f \in FactorsOver(<<2, 2>>, <<1>>)}
    \cup {[A |-> <<2, 2>>, factors |-> << [scope |-> <<0, 1>>, rules |-> <<>>] >>]}
    \cup {[A |-> <<2, 2>>,
           factors |-> << [scope |-> <<0, 1>>,
                           rules |-> << [tag |-> [first |-> <<0, 1>>, second |-> <<1, 0>>],
                                         entries |-> << [tag |-> EmptyTag, v |-> v] >>] >>] >>] :
            v \in Values}

Inputs ==
    {Scenario} \cup Sparse \cup
    UNION {{[A |-> sh.A, factors |-> fs] : fs \in FactorLists(sh.A, sh.scopes)} : sh \in Shapes}

NoCall == [fn |-> "none"]

Init ==
    /\ \E in \in Inputs :
        /\ A = in.A
        /\ graph_ = [variables |-> Len(in.A), factors |-> in.factors]
    /\ logtA_ \in 0..MaxLogtA
    /\ input = graph_
    /\ finalFactors_ = <<>>
    /\ results = <<>>
    /\ fValue = 1
    /\ retval = <<>>
    /\ pc = "start"
    /\ trace = [op |-> "init"]
    /\ call = NoCall
    /\ ret = <<>>

----------------------------------------------------------------------------
(* UCVE::start                                                             *)

\* Lines 88-89: one turn of the while loop.
RemoveAgent ==
    /\ pc = "start"
    /\ graph_.variables > 0
    /\ \E tb \in TieBreaks :
        \E r \in {removeAgent(graph_, finalFactors_, A, logtA_, graph_.variables - 1, tb)} :
            /\ graph_' = r.graph
            /\ finalFactors_' = r.finalFactors
            /\ trace' = [op |-> "removeAgent", agent |-> graph_.variables - 1,
                         factors |-> Len(r.factors), created |-> r.created,
                         merged |-> r.merged, ok |-> r.ok, cut |-> r.cut,
                         read |-> readsFirst(graph_, A, graph_.variables - 1)]
    /\ UNCHANGED <<A, logtA_, results, fValue, retval, pc, input, call, ret>>

\* Line 93: no final factors, the default Result is returned.
ReturnEmpty ==
    /\ pc = "start"
    /\ graph_.variables = 0
    /\ Len(finalFactors_) = 0
    /\ pc' = "done"
    /\ retval' = <<>>
    /\ trace' = [op |-> "return"]
    /\ UNCHANGED <<A, logtA_, graph_, finalFactors_, results, fValue, input, call, ret>>

\* Lines 96-99: one turn of the for loop.
CrossSumFinal ==
    /\ pc = "start"
    /\ graph_.variables = 0
    /\ fValue <= Len(finalFactors_)
    /\ \E tb \in TieBreaks :
        \E summed \in {crossSum(results, finalFactors_[fValue])} :
            /\ results' = boundPrune(summed, 0, 0, logtA_, tb)
            /\ trace' = [op |-> "crossSum",
                         ok |-> CrossSumDisjoint(results, finalFactors_[fValue]),
                         cut |-> Len(results') < Len(summed)]
    /\ fValue' = fValue + 1
    /\ UNCHANGED <<A, logtA_, graph_, finalFactors_, retval, pc, input, call, ret>>

\* Lines 102-112: the first entry of results whose computeValue(., 0, 0) no
\* other reaches or, later in the list, exceeds.
selectBest(entries) ==
    entries[CHOOSE i \in 1..Len(entries) :
                \A j \in 1..Len(entries) :
                    /\ j < i => ValueGT(computeValue(entries[i], 0, 0), computeValue(entries[j], 0, 0))
                    /\ j > i => ~ValueGT(computeValue(entries[j], 0, 0), computeValue(entries[i], 0, 0))]

Select ==
    /\ pc = "start"
    /\ graph_.variables = 0
    /\ Len(finalFactors_) > 0
    /\ fValue > Len(finalFactors_)
    /\ retval' = <<selectBest(results)>>
    /\ pc' = "done"
    /\ trace' = [op |-> "return"]
    /\ UNCHANGED <<A, logtA_, graph_, finalFactors_, results, fValue, input, call, ret>>

Next == RemoveAgent \/ ReturnEmpty \/ CrossSumFinal \/ Select

Spec == Init /\ [][Next]_vars

----------------------------------------------------------------------------
(* The free functions of the file, called on their own                     *)

MaxEntries == 2

MaxList == 2

E(tag, v) == [tag |-> tag, v |-> v]

Tag1(agent, action) == [first |-> <<agent>>, second |-> <<action>>]

SeqsUpTo(S, n) == UNION {[1..k -> S] : k \in 0..n}

\* Entries whose tags name agent 1 or nobody, and entries whose tags name
\* agent 0 or nobody: the two sides of a cross-sum never share an agent.
LhsEntry == {E(t, v) : t \in {EmptyTag, Tag1(1, 0)}, v \in {<<1, 0>>, <<2, 0>>, <<0, 4>>}}
RhsEntry == {E(t, v) : t \in {EmptyTag, Tag1(0, 1)}, v \in {<<1, 0>>, <<2, 0>>, <<0, 4>>}}

CrossSumCalls ==
    {[fn |-> "crossSum", lhs |-> l, rhs |-> r] :
        l \in SeqsUpTo(LhsEntry, MaxEntries), r \in SeqsUpTo(RhsEntry, MaxEntries)}

CrossSumListCalls ==
    {[fn |-> "crossSumList", lhs |-> l, rhs |-> rs] :
        l  \in SeqsUpTo({E(EmptyTag, <<1, 0>>), E(Tag1(1, 0), <<2, 0>>)}, MaxEntries),
        rs \in SeqsUpTo(SeqsUpTo({E(Tag1(0, 0), <<1, 0>>), E(Tag1(0, 1), <<0, 4>>)}, MaxEntries),
                        MaxList)}

\* The three entries (5,1), (4,4), (3,0), pruned with x_l = x_u = 0 and a
\* logtA of 1 (two halves).
PruneScenario ==
    [fn |-> "boundPrune",
     entries |-> <<E(Tag1(0, 0), <<5, 1>>), E(Tag1(0, 1), <<4, 4>>), E(Tag1(0, 2), <<3, 0>>)>>,
     x_l |-> 0, x_u |-> 0, logtA |-> 2]

BoundPruneCalls ==
    {PruneScenario} \cup
    {[fn |-> "boundPrune", entries |-> es, x_l |-> xl, x_u |-> xu, logtA |-> l] :
        es \in SeqsUpTo(RhsEntry, MaxEntries + 1), xl \in {0, 4}, xu \in {4, 8}, l \in 0..MaxLogtA}
    \cup
    {[fn |-> "boundPrune", entries |-> es, x_l |-> 0, x_u |-> 0, logtA |-> l] :
        es \in SeqsUpTo(RhsEntry, MaxEntries + 1), l \in 0..MaxLogtA}

\* Rules over agent 0, and one over agent 1 with the action of one of them.
LhsRule ==
    {[tag |-> t, entries |-> es] :
        t  \in {Tag1(0, 0), Tag1(0, 1), Tag1(1, 1)},
        es \in {<<E(EmptyTag, <<2, 0>>)>>, <<E(Tag1(2, 0), <<1, 0>>), E(Tag1(2, 1), <<0, 4>>)>>}}
RhsRule ==
    {[tag |-> t, entries |-> es] :
        t  \in {Tag1(0, 0), Tag1(0, 1), Tag1(1, 1)},
        es \in {<<E(EmptyTag, <<3, 0>>)>>, <<E(Tag1(3, 0), <<0, 4>>), E(Tag1(3, 1), <<1, 0>>)>>}}

\* Tables of at most two rules, no two with the same action sequence.
Tables(R) ==
    {rs \in SeqsUpTo(R, 2) :
        \A i \in 1..Len(rs) : \A j \in 1..Len(rs) :
            i # j => rs[i].tag.second # rs[j].tag.second}

MergePayoffsCalls ==
    {[fn |-> "mergePayoffs", lhs |-> l, rhs |-> r] : l \in Tables(LhsRule), r \in Tables(RhsRule)}

UtilInit ==
    /\ \/ call \in CrossSumCalls
       \/ call \in CrossSumListCalls
       \/ call \in BoundPruneCalls
       \/ call \in MergePayoffsCalls
    /\ ret = <<>>
    /\ A = <<>>
    /\ logtA_ = 0
    /\ graph_ = [variables |-> 0, factors |-> <<>>]
    /\ input = graph_
    /\ finalFactors_ = <<>>
    /\ results = <<>>
    /\ fValue = 1
    /\ retval = <<>>
    /\ pc = "idle"
    /\ trace = [op |-> "init"]

CallCrossSum ==
    /\ call.fn = "crossSum"
    /\ ret = <<>>
    /\ ret' = <<crossSum(call.lhs, call.rhs)>>
    /\ UNCHANGED <<driverVars, call>>

CallCrossSumList ==
    /\ call.fn = "crossSumList"
    /\ ret = <<>>
    /\ ret' = <<crossSumList(call.lhs, call.rhs)>>
    /\ UNCHANGED <<driverVars, call>>

CallBoundPrune ==
    /\ call.fn = "boundPrune"
    /\ ret = <<>>
    /\ \E tb \in TieBreaks :
        ret' = <<boundPrune(call.entries, call.x_l, call.x_u, call.logtA, tb)>>
    /\ UNCHANGED <<driverVars, call>>

CallMergePayoffs ==
    /\ call.fn = "mergePayoffs"
    /\ ret = <<>>
    /\ ret' = <<mergePayoffs(call.lhs, call.rhs)>>
    /\ UNCHANGED <<driverVars, call>>

UtilNext == CallCrossSum \/ CallCrossSumList \/ CallBoundPrune \/ CallMergePayoffs

UtilSpec == UtilInit /\ [][UtilNext]_vars

----------------------------------------------------------------------------
(* Properties of the free functions, under UtilSpec                        *)

Returned(fn) == call.fn = fn /\ ret # <<>>

Count(s, P(_)) == Cardinality({k \in 1..Len(s) : P(s[k])})

SameBag(s, t) ==
    \A e \in Range(s) \cup Range(t) : Count(s, LAMBDA x : x = e) = Count(t, LAMBDA x : x = e)

ActionIn(t, agent) == t.second[CHOOSE i \in 1..Len(t.first) : t.first[i] = agent]

\* t names exactly the agents of t1 and of t2, ascending, each with its action.
IsDisjointUnion(t, t1, t2) ==
    /\ TagsDisjoint(t1, t2)
    /\ t.first = SortedSeq(Range(t1.first) \cup Range(t2.first))
    /\ Len(t.second) = Len(t.first)
    /\ \A k \in 1..Len(t.first) :
        t.second[k] = IF t.first[k] \in Range(t1.first)
                      THEN ActionIn(t1, t.first[k]) ELSE ActionIn(t2, t.first[k])

IsSumOf(e, a, b) ==
    /\ e.v = <<a.v[1] + b.v[1], a.v[2] + b.v[2]>>
    /\ IsDisjointUnion(e.tag, a.tag, b.tag)

\* C3 (as amended): for every slack x between x_l and x_u, boundPrune keeps an
\* entry whose value at x no entry of the input exceeds; applied to (5,1),
\* (4,4), (3,0) with x_l = x_u = 0 and logtA = 1 it keeps exactly one entry,
\* (5,1) or (4,4), whichever of the two tied at value 6 the sort put first.
C3_PruneKeepsAMaximum ==
    Returned("boundPrune") =>
        /\ \A x \in call.x_l..call.x_u :
            \A i \in 1..Len(call.entries) :
                \E k \in 1..Len(ret[1]) :
                    /\ ret[1][k] \in Range(call.entries)
                    /\ ~ValueGT(computeValue(call.entries[i], x, call.logtA),
                                computeValue(ret[1][k], x, call.logtA))
        /\ call = PruneScenario =>
            \/ ret[1] = <<PruneScenario.entries[1]>>
            \/ ret[1] = <<PruneScenario.entries[2]>>

\* C3 as stated: on the three entries, (4,4) is retained whatever the sort did
\* with the tie.
C3_Retains44 ==
    (Returned("boundPrune") /\ call = PruneScenario) =>
        PruneScenario.entries[2] \in Range(ret[1])

\* A pruning with x_l < x_u that removed an entry.
C3_Witness ==
    /\ Returned("boundPrune")
    /\ call.x_l < call.x_u
    /\ call.logtA > 0
    /\ Len(call.entries) = 3
    /\ Len(ret[1]) = 2

RuleTags(rules) == {rules[k].tag : k \in 1..Len(rules)}

EntriesOf(rules, t) == rules[CHOOSE k \in 1..Len(rules) : rules[k].tag = t].entries

\* out holds one rule per tag of lhs and rhs, passed through or cross-summed.
IsMergeOf(out, lhs, rhs) ==
    /\ Len(out) = Cardinality(RuleTags(lhs) \cup RuleTags(rhs))
    /\ \A t \in RuleTags(lhs) \cup RuleTags(rhs) :
        /\ Cardinality({k \in 1..Len(out) : out[k].tag = t}) = 1
        /\ EntriesOf(out, t) =
            IF t \notin RuleTags(rhs) THEN EntriesOf(lhs, t)
            ELSE IF t \notin RuleTags(lhs) THEN EntriesOf(rhs, t)
            ELSE crossSum(EntriesOf(lhs, t), EntriesOf(rhs, t))

SameAgents(lhs, rhs) ==
    \A t1 \in RuleTags(lhs) \cup RuleTags(rhs) : \A t2 \in RuleTags(lhs) \cup RuleTags(rhs) :
        t1.first = t2.first

MergeScenario ==
    [fn |-> "mergePayoffs",
     lhs |-> << [tag |-> Tag1(0, 0), entries |-> <<E(EmptyTag, <<2, 0>>)>>] >>,
     rhs |-> << [tag |-> Tag1(0, 0), entries |-> <<E(EmptyTag, <<3, 0>>)>>] >>]

\* C4 (as amended): for two tables whose tags all name the same agents, given
\* in any order, each with at most one rule per tag, mergePayoffs returns
\* exactly one rule per tag of the union, passed through unchanged when the
\* tag is in one table and cross-summed when it is in both; [(2,0)] and
\* [(3,0)] under one tag give one rule with [(5,0)].
C4_MergeSameAgents ==
    (Returned("mergePayoffs") /\ SameAgents(call.lhs, call.rhs)) =>
        /\ IsMergeOf(ret[1], call.lhs, call.rhs)
        /\ call = MergeScenario =>
            ret[1] = << [tag |-> Tag1(0, 0), entries |-> <<E(EmptyTag, <<5, 0>>)>>] >>

\* C4 as stated: the same of any two tables, rules whose tags differ in
\* agents included.
C4_MergeAnyTags ==
    Returned("mergePayoffs") => IsMergeOf(ret[1], call.lhs, call.rhs)

\* Two tables of two rules over agent 0, in different orders, merged.
C4_Witness ==
    /\ Returned("mergePayoffs")
    /\ SameAgents(call.lhs, call.rhs)
    /\ Len(call.lhs) = 2
    /\ Len(call.rhs) = 2
    /\ call.lhs[1].tag = call.rhs[2].tag
    /\ Len(call.lhs[1].entries) = 2
    /\ Len(call.rhs[2].entries) = 2

\* C5 (as amended): for non-empty lhs and rhs, crossSum returns |lhs| * |rhs|
\* entries, one for every pair of positions (i, j), in the order of lhs then
\* rhs: the value-pair is the element-wise sum and the tag the disjoint union
\* of the pair's; there are no other entries.  (An entry with a pair's sum
\* and tag occurs once for each pair that yields them.)
C5_OneEntryPerPair ==
    (Returned("crossSum") /\ Len(call.lhs) > 0 /\ Len(call.rhs) > 0) =>
        /\ Len(ret[1]) = Len(call.lhs) * Len(call.rhs)
        /\ \A i \in 1..Len(call.lhs) : \A j \in 1..Len(call.rhs) :
            IsSumOf(ret[1][(i - 1) * Len(call.rhs) + j], call.lhs[i], call.rhs[j])

\* C5 as stated: for every pair exactly one entry of the output has its sum
\* and its tag.
C5_ExactlyOneEntry ==
    (Returned("crossSum") /\ Len(call.lhs) > 0 /\ Len(call.rhs) > 0) =>
        /\ Len(ret[1]) = Len(call.lhs) * Len(call.rhs)
        /\ \A i \in 1..Len(call.lhs) : \A j \in 1..Len(call.rhs) :
            Count(ret[1], LAMBDA e : IsSumOf(e, call.lhs[i], call.rhs[j])) = 1
        /\ \A k \in 1..Len(ret[1]) :
            \E i \in 1..Len(call.lhs) : \E j \in 1..Len(call.rhs) :
                IsSumOf(ret[1][k], call.lhs[i], call.rhs[j])

\* A cross-sum of two lists of two entries, tags of both sides merged.
C5_Witness ==
    /\ Returned("crossSum")
    /\ Len(call.lhs) = 2
    /\ Len(call.rhs) = 2
    /\ Len(ret[1]) = 4
    /\ \E k \in 1..4 : ret[1][k].tag.first = <<0, 1>>

\* C6: crossSum(A, {}) is A and crossSum({}, B) is B, tags and values unchanged.
C6_EmptyIsIdentity ==
    Returned("crossSum") =>
        /\ Len(call.rhs) = 0 => ret[1] = call.lhs
        /\ Len(call.lhs) = 0 => ret[1] = call.rhs

\* A cross-sum of two entries with the empty list.
C6_Witness ==
    /\ Returned("crossSum")
    /\ Len(call.lhs) = 2
    /\ Len(call.rhs) = 0
    /\ Len(ret[1]) = 2

\* C7: the list overload returns, as a multiset, what the binary crossSum
\* returns on the concatenation of the list's members.
C7_ListIsConcatenation ==
    Returned("crossSumList") => SameBag(ret[1], crossSum(call.lhs, Flatten(call.rhs)))

----------------------------------------------------------------------------
(* Properties of start(), under Spec and FairSpec                          *)

AllAgents == Tuple([k \in 1..Len(A) |-> k - 1])

\* All joint actions of all agents, as action sequences.
JointActions == Range(jointActionsOf(A, AllAgents, -1))

\* What the initial factor pays for the joint action ja: the entry of its
\* rule for ja's assignment of the scope.
PayoffAt(factor, ja) ==
    (CHOOSE r \in Range(factor.rules) :
        \A k \in 1..Len(r.tag.first) : r.tag.second[k] = ja[r.tag.first[k] + 1]).entries[1].v

RECURSIVE Total(_, _)
Total(factors, ja) ==
    IF Len(factors) = 0 THEN <<0, 0>>
    ELSE Let(Total(Tail(factors), ja),
             LAMBDA rest : <<PayoffAt(Head(factors), ja)[1] + rest[1],
                             PayoffAt(Head(factors), ja)[2] + rest[2]>>)

ZeroBonus == \A i \in 1..Len(input.factors) : bonusesOf(input.factors[i].rules) \subseteq {0}

Adjacent(graph, agent) == {i \in 1..Len(graph.factors) : agent \in Range(graph.factors[i].scope)}

\* Every agent is in a factor and every factor has a rule for every
\* assignment of its scope.
Populated ==
    /\ \A agent \in 0..(Len(A) - 1) : Adjacent(input, agent) # {}
    /\ \A i \in 1..Len(input.factors) :
        LET f == input.factors[i]
        IN  {f.rules[r].tag.second : r \in 1..Len(f.rules)} = Range(jointActionsOf(A, f.scope, -1))

Done == pc = "done" /\ input.variables > 0 /\ Populated

\* C1: with every bonus 0 and logtA 0, start() returns a full joint action and
\* as its mean the sum of what the initial factors pay for it, and no joint
\* action is paid more; on the payoffs [[1,3],[5,2]] it returns (1, 0) with
\* mean 5.
C1_ReturnsMaximum ==
    (Done /\ logtA_ = 0 /\ ZeroBonus) =>
        /\ Len(retval) = 1
        /\ retval[1].tag.first = AllAgents
        /\ retval[1].tag.second \in JointActions
        /\ retval[1].v = Total(input.factors, retval[1].tag.second)
        /\ \A ja \in JointActions : Total(input.factors, ja)[1] <= retval[1].v[1]
        /\ input.factors = Scenario.factors =>
            retval[1] = [tag |-> [first |-> <<0, 1>>, second |-> <<1, 0>>], v |-> <<5, 0>>]

\* start() has returned on the payoffs [[1,3],[5,2]] with logtA 0.
C1_Witness ==
    /\ Done
    /\ logtA_ = 0
    /\ input.factors = Scenario.factors
    /\ Len(retval) = 1

\* C2: whatever the bonuses and logtA, the entry start() returns has the
\* largest mean + sqrt(bonus * logtA / 2) of all complete combinations: no
\* joint action's summed payoff has a larger one.
C2_ReturnsUpperConfidenceMaximum ==
    Done =>
        /\ Len(retval) = 1
        /\ \A ja \in JointActions :
            ~ValueGT(computeValue([v |-> Total(input.factors, ja)], 0, logtA_),
                     computeValue(retval[1], 0, logtA_))

ScopeCount(graph, I, scope) == Cardinality({i \in I : graph.factors[i].scope = scope})

\* The step from graph to next removed the last agent and its factors, and
\* added at most one factor, over the other agents of those factors.
RemovedLast(graph, next) ==
    LET agent == graph.variables - 1
        gone  == Adjacent(graph, agent)
        kept  == (1..Len(graph.factors)) \ gone
        rest  == SortedSeq(UNION {Range(graph.factors[i].scope) : i \in gone} \ {agent})
        all   == 1..Len(next.factors)
    IN  /\ next.variables = graph.variables - 1
        /\ Adjacent(next, agent) = {}
        /\ \A i \in kept : ScopeCount(next, all, graph.factors[i].scope) >= ScopeCount(graph, kept, graph.factors[i].scope)
        /\ Len(next.factors) <= Cardinality(kept) + 1
        /\ \A j \in all :
            \/ \E i \in kept : graph.factors[i].scope = next.factors[j].scope
            \/ next.factors[j].scope = rest

\* The steps start() has left at most: two for every agent (its removal,
\* and the cross-sum of the final factor the removal may add), one for every
\* final factor not yet cross-summed, one for the return.
Remaining ==
    2 * graph_.variables + (Len(finalFactors_) + 1 - fValue) + (IF pc = "done" THEN 0 ELSE 1)

\* C9: while agents remain, the step start() takes is removeAgent of the
\* highest agent, which leaves one agent less, none of that agent's factors
\* and at most one new factor, over their other agents; start() has a step
\* to take until it has returned (the removal while agents remain, one of
\* the other steps after), every step leaves fewer steps to take, and it
\* returns with no agent left.
C9_Terminates ==
    /\ [][/\ Remaining' < Remaining
          /\ (pc = "start" /\ graph_.variables > 0) =>
                /\ trace'.op = "removeAgent"
                /\ trace'.agent = graph_.variables - 1
                /\ RemovedLast(graph_, graph_')]_vars
    /\ [](Remaining \in Nat)
    /\ [](pc = "start" =>
            graph_.variables > 0 \/ ENABLED (ReturnEmpty \/ CrossSumFinal \/ Select))
    /\ [](pc = "done" => graph_.variables = 0)

\* start() has returned after three removals, the last of which found no
\* agent but its own.
C9_Witness ==
    /\ pc = "done"
    /\ Len(A) = 3
    /\ graph_.variables = 0
    /\ Len(graph_.factors) = 0
    /\ Len(retval) = 1

EntryTags(entries) == {entries[e].tag : e \in 1..Len(entries)}

RulesTags(rules) == UNION {EntryTags(rules[r].entries) : r \in 1..Len(rules)}

\* The tags of all entries there are.
AllTags ==
    UNION {RulesTags(graph_.factors[i].rules) : i \in 1..Len(graph_.factors)}
    \cup UNION {EntryTags(finalFactors_[f]) : f \in 1..Len(finalFactors_)}
    \cup EntryTags(results)
    \cup EntryTags(retval)

WellFormed(t) ==
    /\ Len(t.first) = Len(t.second)
    /\ \A k \in 1..(Len(t.first) - 1) : t.first[k] < t.first[k + 1]
    /\ \A k \in 1..Len(t.first) : graph_.variables <= t.first[k] /\ t.first[k] < Len(A)

\* C10: in every state of start() every entry's tag has as many actions as
\* agents, its agents strictly ascending and all of them eliminated, and the
\* step that led to the state cross-summed only entries whose tags share no
\* agent.
C10_TagsWellFormed ==
    pc \in {"start", "done"} =>
        /\ \A t \in AllTags : WellFormed(t)
        /\ trace.op \in {"removeAgent", "crossSum"} => trace.ok

\* A removal of an agent with two factors that merged its rules into a
\* factor already there, leaving entries tagged with the agent.
C10_Witness ==
    /\ pc = "start"
    /\ trace.op = "removeAgent"
    /\ trace.factors >= 2
    /\ trace.merged
    /\ \E t \in AllTags : Len(t.first) = 1

====
